---- MODULE Spec2Model ----
(***************************************************************************)
(* The realtime chat relay of src/server.js (lines 1-166) and the socket   *)
(* lifecycle of its client (PookieChatModal, lines 943-1078).              *)
(*                                                                         *)
(* Strings are sequences of one-character strings, so that String.trim and *)
(* String.slice are computed and not assumed.  A payload field that is     *)
(* missing, null, "", 0 or false behaves like the empty string in every    *)
(* `x || dflt` of the handlers, and any other value is turned into a       *)
(* non-empty string by String(); the empty sequence stands for the former. *)
(* The exception is an object that has no callable toString or valueOf,    *)
(* such as the JSON value {"toString": null}: String() throws a TypeError  *)
(* on it, and with no handler for uncaught exceptions the process ends.    *)
(***************************************************************************)
EXTENDS Integers, Sequences, FiniteSets, TLC

\* ------------------------------------------------------------------ bounds
MaxConns == 2        \* connections opened in a run of Spec
FewConns == 1        \* connections opened in a run of SpecStore or SpecPayload
MaxEvents == 6       \* events (connection, message, register, typing, seen, disconnect) in a run of Spec
FewEvents == 3       \* events in a run of SpecStore or SpecPayload

\* ------------------------------------------------------- program constants
MAX_HISTORY == 120
TextMax == 350
NameMax == 24

VARIABLES
  pc,               \* position of the module's top-level code (lines 138-166)
  firestore,        \* TRUE iff `firestore` is not null
  store,            \* the documents of collection "messages", in write order
  pending,          \* add() calls issued and not yet settled
  chatHistory,      \* sequence of messages
  onlineUsers,      \* Map socket.id -> name, a sequence of [id, name] in insertion order
  lastOnlineByName, \* Map name -> timestamp
  typingBySocket,   \* Map socket.id -> name, a sequence of [id, name] in insertion order
  conn,             \* the transport's view of every connection id
  now,              \* the value Date.now() returned last
  arrived,          \* history: the messages reloaded at startup, then every accepted one
  fuel,             \* environment: events the clients will still cause
  last,             \* history: the step taken last
  outbox,           \* history: the events emitted by the step taken last, in order
  messages,         \* client: the `messages` list of the chat window behind every connection
  client,           \* client: the chat window behind every connection: its typing timer,
                    \* whether its socket is open, and the events it has emitted that
                    \* the relay has not handled yet
  quiz              \* client: the state of QuizScreen, with the validations and the
                    \* delayed advances it has under way

vars == <<pc, firestore, store, pending, chatHistory, onlineUsers, lastOnlineByName,
          typingBySocket, conn, now, arrived, fuel, last, outbox, messages, client, quiz>>

\* ----------------------------------------------------------------- strings
Rep(c, n) == [i \in 1..n |-> c]

Min(a, b) == IF a < b THEN a ELSE b

IsSpace(ch) == ch = " "

\* String.prototype.trim
Trim(s) ==
  IF \A i \in 1..Len(s) : IsSpace(s[i]) THEN <<>>
  ELSE LET lo == CHOOSE i \in 1..Len(s) :
                   ~IsSpace(s[i]) /\ \A j \in 1..(i - 1) : IsSpace(s[j])
           hi == CHOOSE i \in 1..Len(s) :
                   ~IsSpace(s[i]) /\ \A j \in (i + 1)..Len(s) : IsSpace(s[j])
       IN  SubSeq(s, lo, hi)

\* String.prototype.slice(0, n)
Slice(s, n) == SubSeq(s, 1, Min(n, Len(s)))

\* x || dflt
OrElse(x, dflt) == IF x = <<>> THEN dflt ELSE x

Anon == <<"a", "n", "o", "n">>
Someone == <<"S", "o", "m", "e", "o", "n", "e">>

\* String(payload?.name || "anon").trim().slice(0, 24)
MsgName(p) == Slice(Trim(OrElse(p.name, Anon)), NameMax)

\* mutant of MsgText: the text is not trimmed
MsgTextUntrimmed(p) == Slice(p.text, TextMax)

\* mutant of MsgText: the text is not truncated
MsgTextUncut(p) == Trim(p.text)

\* String(payload?.text || "").trim().slice(0, 350)
MsgText(p) == Slice(Trim(p.text), TextMax)

\* mutant of CleanName: the name is not trimmed
CleanNameUntrimmed(p) == Slice(p.name, NameMax)

\* String(payload?.name || "").trim().slice(0, 24)
CleanName(p) == Slice(Trim(p.name), NameMax)

\* Number(payload?.at) || Date.now()
ResolveAt(p, t) == IF p.at.num /\ p.at.n # 0 THEN p.at.n ELSE t

\* -------------------------------------------------------------- JS Map
MapHas(m, k) == \E i \in 1..Len(m) : m[i].id = k

MapGet(m, k) == m[CHOOSE i \in 1..Len(m) : m[i].id = k].name

\* mutant of MapSet: a second entry instead of an overwrite
MapSetAppend(m, k, v) == Append(m, [id |-> k, name |-> v])

\* Map.prototype.set: an existing key keeps its place
MapSet(m, k, v) ==
  IF MapHas(m, k)
  THEN [i \in 1..Len(m) |-> IF m[i].id = k THEN [id |-> k, name |-> v] ELSE m[i]]
  ELSE Append(m, [id |-> k, name |-> v])

\* Map.prototype.delete
MapDelete(m, k) == SelectSeq(m, LAMBDA e : e.id # k)

MapKeys(m) == {m[i].id : i \in 1..Len(m)}

\* [...new Set(seq)]: the distinct elements, in order of first occurrence
RECURSIVE Distinct(_)
Distinct(s) ==
  IF s = <<>> THEN <<>>
  ELSE LET r == Distinct(SubSeq(s, 1, Len(s) - 1))
           x == s[Len(s)]
       IN  IF \E i \in 1..Len(r) : r[i] = x THEN r ELSE Append(r, x)

\* ---------------------------------------------------------- the transport
Sockets == 1..(IF MaxConns > FewConns THEN MaxConns ELSE FewConns)

\* A connection id is "fresh" until it connects; "live" from the "connection"
\* event to the "disconnect" event; "left" after a disconnect that the client
\* asked for with socket.disconnect() (line 1010), which reaches the relay as
\* a packet on a transport that is still open; "closed" at the end.

\* sockets of namespace "/": "connection" has fired and "disconnect" has not
LiveOf(cn) == {c \in Sockets : cn[c] = "live"}

Live == LiveOf(conn)

\* io.engine.clientsCount: the transport-level connections that are open
ClientsCount(cn) == Cardinality({c \in Sockets : cn[c] \in {"live", "left"}})

Emit(to, ev, data) == [to |-> to, ev |-> ev, data |-> data]

\* the ids of a set, in ascending order
RECURSIVE SetToSeq(_)
SetToSeq(S) ==
  IF S = {} THEN <<>>
  ELSE LET m == CHOOSE x \in S : \A y \in S : x <= y
       IN  <<m>> \o SetToSeq(S \ {m})

\* io.emit(ev, data): one event to every socket of the namespace
IoEmit(to, ev, data) == [i \in 1..Len(SetToSeq(to)) |-> Emit(SetToSeq(to)[i], ev, data)]

\* ---------------------------------------------------------------- payloads
NoAt == [num |-> FALSE, n |-> 0]

NumAt(n) == [num |-> TRUE, n |-> n]

\* the fields of a payload that the handlers read, and two that they do not:
\* a connection id the client puts in as sender or as viewer (0: none)
Payload(name, text, at, typing) ==
  [name |-> name, text |-> text, at |-> at, typing |-> typing,
   senderSocketId |-> 0, viewerSocketId |-> 0]

\* payload p, naming connection id as its sender and viewer
Forged(p, id) == [p EXCEPT !.senderSocketId = id, !.viewerSocketId = id]

\* a missing payload: every field is undefined
NoPayload == Payload(<<>>, <<>>, NoAt, FALSE)

Blank == <<" ">>
PadName == <<" ", "a", " ">>
ShortName == <<"b">>
LongName == Rep("a", NameMax + 1)
\* longer than NameMax, with a space at position NameMax
GapName == Rep("a", NameMax - 1) \o <<" ", "b">>
\* longer than NameMax, not so once trimmed
LeadName == <<" ", " ">> \o Rep("a", NameMax - 1)

\* a name that String() cannot convert: the object {"toString": null}
Unprintable == <<"{toString: null}">>

\* String(payload?.name || ...) throws a TypeError
Throws(p) == p.name = Unprintable

PadText == <<" ", "x", " ">>
LongText == Rep("x", TextMax + 1)
GapText == Rep("x", TextMax - 1) \o <<" ", "y">>
LeadText == <<" ", " ">> \o Rep("x", TextMax - 1)

\* the payloads of Spec and SpecStore: few, over two names
PlainMessages ==
  { NoPayload,
    Payload(PadName, Blank, NumAt(1), FALSE),
    Payload(PadName, PadText, NumAt(2), FALSE),
    Payload(ShortName, PadText, NoAt, FALSE) }

PlainRegisters == { Payload(n, <<>>, NoAt, FALSE) : n \in {<<>>, Blank, PadName, ShortName} }

PlainTypings == { Payload(n, <<>>, NoAt, t) : n \in {<<>>, Blank, PadName}, t \in BOOLEAN }

PlainSeens == { NoPayload, Payload(PadName, <<>>, NumAt(2), FALSE) }

\* the payloads of SpecPayload: every shape of text, name and timestamp
RichMessages ==
  { NoPayload,
    Payload(PadName, Blank, NumAt(1), FALSE),
    Payload(PadName, PadText, NumAt(2), FALSE),
    Payload(<<>>, <<"y">>, NumAt(1), FALSE),
    Payload(Blank, PadText, NumAt(0), FALSE),
    Payload(LongName, LongText, NoAt, FALSE),
    Payload(GapName, GapText, NumAt(1), FALSE),
    Payload(LeadName, LeadText, NumAt(2), FALSE),
    Payload(Unprintable, PadText, NoAt, FALSE) }

RichRegisters ==
  { Payload(n, <<>>, NoAt, FALSE) : n \in {<<>>, PadName, LongName, GapName, LeadName, Unprintable} }

RichTypings ==
  { Payload(n, <<>>, NoAt, t) :
      n \in {<<>>, Blank, LongName, GapName, LeadName, Unprintable}, t \in BOOLEAN }

RichSeens ==
  { NoPayload, Payload(LongName, <<>>, NumAt(0), FALSE), Payload(Unprintable, <<>>, NoAt, FALSE) }

\* ------------------------------------------------------------ durable store
Creds == {"FIREBASE_PROJECT_ID", "FIREBASE_CLIENT_EMAIL", "FIREBASE_PRIVATE_KEY"}

\* a document written by an earlier run of the relay
OldDoc(at) == [name |-> <<"a">>, text |-> <<"x">>, at |-> at, senderSocketId |-> 0]

\* the collection at startup: documents in write order, with distinct `at`
EmptyStore == <<>>
SmallStore == <<OldDoc(5), OldDoc(3)>>
NearStore == [i \in 1..(MAX_HISTORY - 1) |-> OldDoc(i)]
OverStore == [i \in 1..(MAX_HISTORY + 1) |-> OldDoc(i)]

\* orderBy("at", "asc"): the place of document i in the result
Rank(docs, i) ==
  Cardinality({j \in 1..Len(docs) : docs[j].at < docs[i].at \/ (docs[j].at = docs[i].at /\ j <= i)})

SortByAt(docs) ==
  [r \in 1..Len(docs) |-> docs[CHOOSE i \in 1..Len(docs) : Rank(docs, i) = r]]

\* the record pushed for one stored document
LoadDoc(data, t) ==
  [name |-> OrElse(data.name, Anon), text |-> data.text,
   at |-> IF data.at # 0 THEN data.at ELSE t,
   senderSocketId |-> data.senderSocketId]

\* mutant of QueryRecent: the query without its limit
QueryAll(docs) == SortByAt(docs)

\* .orderBy("at", "asc").limit(MAX_HISTORY).get()
QueryRecent(docs) == SubSeq(SortByAt(docs), 1, Min(MAX_HISTORY, Len(docs)))

\* QUESTIONS.length
total == 6

\* QUESTIONS[k].answer, the first question being QuizAnswers[1]
QuizAnswers ==
  << <<"a", " ", "g", "i", "r", "l", " ", "n", "o", "t", " ", "s", "h", "y", " ", "a", "s", " ", "m", "u", "c", "h", " ", "y", "o", "u", " ", "a", "r", "e">>,
     <<"y", "e", "s">>,
     <<"g", "i", "r", "l">>,
     <<"b", "e", "h", "i", "n", "d">>,
     <<"n", "a", "r", "n", "a", "u", "d">>,
     <<"n", "d", "a">> >>

\* what the user may type: a right answer in other case, a single letter, a
\* letter no answer has, some words of the first answer, a right answer
TypedAnswers ==
  { <<"N", "D", "A">>,
    <<"n">>,
    <<"x">>,
    <<"s", "h", "y", " ", "g", "i", "r", "l", " ", "n", "o", "t">>,
    <<"y", "e", "s">> }

\* String.prototype.toLowerCase, on the letters of TypedAnswers
LowerChar(ch) ==
  CASE ch = "N" -> "n" [] ch = "D" -> "d" [] ch = "A" -> "a" [] OTHER -> ch

toLowerCase(s) == [i \in 1..Len(s) |-> LowerChar(s[i])]

\* s.includes(sub)
Includes(s, sub) ==
  \E i \in 0..(Len(s) - Len(sub)) : SubSeq(s, i + 1, i + Len(sub)) = sub

\* s.split(/\s+/).filter((w) => w.length > 2): the words of s longer than two
LongWords(s) ==
  LET ends == {i \in 1..Len(s) : ~IsSpace(s[i]) /\ (i = Len(s) \/ IsSpace(s[i + 1]))}
      start(e) == CHOOSE b \in 1..e :
                    /\ \A k \in b..e : ~IsSpace(s[k])
                    /\ (b = 1 \/ IsSpace(s[b - 1]))
      F[k \in 0..Len(s)] ==
        IF k = 0 THEN <<>>
        ELSE IF k \in ends /\ k - start(k) + 1 > 2
             THEN Append(F[k - 1], SubSeq(s, start(k), k))
             ELSE F[k - 1]
  IN  F[Len(s)]

\* fallbackMatch(userAnswer, correctAnswer), lines 214-223
fallbackMatch(userAnswer, correctAnswer) ==
  LET u == toLowerCase(Trim(userAnswer))
      c == toLowerCase(correctAnswer)
      cWords == LongWords(c)
      matches == {i \in 1..Len(cWords) : Includes(u, cWords[i])}
  IN  IF u = c \/ Includes(u, c) \/ Includes(c, u) THEN TRUE
      ELSE IF Len(cWords) = 0 THEN FALSE
           ELSE 2 * Cardinality(matches) >= Len(cWords)

\* validateAnswer, lines 276-319: the local check decides when it accepts;
\* when it does not, the answer is `other`: the verdict of the first
\* question's flexible match or of the remote validator
validateAnswer(correctAnswer, userAnswer, other) ==
  fallbackMatch(userAnswer, correctAnswer) \/ other

\* QuizScreen as first rendered (lines 448-453), nothing answered yet; local
\* is history: the answers the local check was last given, and its verdict
NewQuiz ==
  [step |-> 0, val |-> <<>>, loading |-> FALSE, correct |-> FALSE,
   checks |-> <<>>, timers |-> <<>>, passed |-> {}, lastOk |-> -1, unlocked |-> FALSE,
   local |-> [u |-> <<>>, c |-> <<>>, accepted |-> FALSE]]

\* the chat windows after the events of box have reached them: lines 985-990,
\* "chat message" appends to the list and "chat history" replaces it
Receive(msgs, box) ==
  LET F[k \in 0..Len(box)] ==
        IF k = 0 THEN msgs
        ELSE IF box[k].ev = "chat history"
             THEN [F[k - 1] EXCEPT ![box[k].to] = box[k].data]
             ELSE IF box[k].ev = "chat message"
                  THEN [F[k - 1] EXCEPT ![box[k].to] = Append(@, box[k].data)]
                  ELSE F[k - 1]
  IN  F[Len(box)]

\* the step taken: the event, its connection, the name the Session Registry
\* held for that connection before the step (<<>> if none), and, for a typing
\* event whose flag is falsy, the payload's name: once, or twice when the step
\* before was the same event from the same connection; and the timestamp the
\* Last-Seen Ledger held under that name before the step (0 if none); and the
\* HTTP response the step sent, if it answered a request
Step(ev, id) ==
  [ev |-> ev, id |-> id,
   was |-> IF MapHas(onlineUsers, id) THEN MapGet(onlineUsers, id) ELSE <<>>,
   stop |-> <<>>,
   seen |-> IF MapHas(onlineUsers, id) /\ MapGet(onlineUsers, id) \in DOMAIN lastOnlineByName
            THEN lastOnlineByName[MapGet(onlineUsers, id)] ELSE 0,
   res |-> <<>>]

\* ------------------------------------------------------------------- Init
InitWith(stores, events) ==
  /\ pc = "init"
  /\ firestore = FALSE
  /\ store \in stores
  /\ pending = <<>>
  /\ chatHistory = <<>>
  /\ onlineUsers = <<>>
  /\ lastOnlineByName = <<>>
  /\ typingBySocket = <<>>
  /\ conn = [c \in Sockets |-> "fresh"]
  /\ now = 1
  /\ arrived = <<>>
  /\ fuel = events
  /\ last = [ev |-> "none", id |-> 0, was |-> <<>>, stop |-> <<>>, seen |-> 0, res |-> <<>>]
  /\ outbox = <<>>
  /\ messages = [c \in Sockets |-> <<>>]
  /\ client = [c \in Sockets |-> [timer |-> FALSE, open |-> TRUE, typed |-> FALSE, wire |-> <<>>]]
  /\ quiz = NewQuiz

Init == InitWith({EmptyStore}, MaxEvents)

InitStore == InitWith({EmptyStore, SmallStore, NearStore, OverStore}, FewEvents)

InitPayload == InitWith({EmptyStore}, FewEvents)

\* ---------------------------------------------------------------- startup
\* firestore = initFirebase(): null unless the three credentials are set
InitFirebase(present) ==
  /\ pc = "init"
  /\ firestore' = (present = Creds)
  /\ pc' = IF present = Creds THEN "load" ELSE "ready"
  /\ last' = Step("initFirebase", 0)
  /\ outbox' = <<>>
  /\ UNCHANGED <<store, pending, chatHistory, onlineUsers, lastOnlineByName,
                 typingBySocket, conn, now, arrived, fuel>>
  /\ messages' = Receive(messages, outbox')
  /\ UNCHANGED client
  /\ UNCHANGED quiz

\* await loadHistoryFromFirestore(): the query resolves
LoadHistory ==
  /\ pc = "load"
  /\ chatHistory' = LET docs == QueryRecent(store)
                    IN  [i \in 1..Len(docs) |-> LoadDoc(docs[i], now)]
  /\ arrived' = chatHistory'
  /\ pc' = "ready"
  /\ last' = Step("load", 0)
  /\ outbox' = <<>>
  /\ UNCHANGED <<firestore, store, pending, onlineUsers, lastOnlineByName,
                 typingBySocket, conn, now, fuel>>
  /\ messages' = Receive(messages, outbox')
  /\ UNCHANGED client
  /\ UNCHANGED quiz

\* the query rejects: .catch(() => {})
LoadFails ==
  /\ pc = "load"
  /\ pc' = "ready"
  /\ last' = Step("load failed", 0)
  /\ outbox' = <<>>
  /\ UNCHANGED <<firestore, store, pending, chatHistory, onlineUsers, lastOnlineByName,
                 typingBySocket, conn, now, arrived, fuel>>
  /\ messages' = Receive(messages, outbox')
  /\ UNCHANGED client
  /\ UNCHANGED quiz

\* the records whose read is made to fail, of the n the query returns: the
\* first, the second, the last
FailAt(n) == {1, 2, n} \cap (1..n)

\* the query resolves and reading record i throws inside snap.forEach, after
\* `chatHistory.length = 0` and the push of the records before it:
\* .catch(() => {})
ReadFails(i) ==
  /\ pc = "load"
  /\ i \in FailAt(Min(MAX_HISTORY, Len(store)))
  /\ chatHistory' = LET docs == QueryRecent(store)
                    IN  [k \in 1..(i - 1) |-> LoadDoc(docs[k], now)]
  /\ arrived' = chatHistory'
  /\ pc' = "ready"
  /\ last' = Step("read failed", 0)
  /\ outbox' = <<>>
  /\ UNCHANGED <<firestore, store, pending, onlineUsers, lastOnlineByName,
                 typingBySocket, conn, now, fuel>>
  /\ messages' = Receive(messages, outbox')
  /\ UNCHANGED client
  /\ UNCHANGED quiz

\* mutant of Listen: the load is not awaited
ListenEarly ==
  /\ pc \in {"load", "ready"}
  /\ pc' = "listening"
  /\ last' = Step("listen", 0)
  /\ outbox' = <<>>
  /\ UNCHANGED <<firestore, store, pending, chatHistory, onlineUsers, lastOnlineByName,
                 typingBySocket, conn, now, arrived, fuel>>
  /\ messages' = Receive(messages, outbox')
  /\ UNCHANGED client
  /\ UNCHANGED quiz

\* httpServer.listen(port)
Listen ==
  /\ pc = "ready"
  /\ pc' = "listening"
  /\ last' = Step("listen", 0)
  /\ outbox' = <<>>
  /\ UNCHANGED <<firestore, store, pending, chatHistory, onlineUsers, lastOnlineByName,
                 typingBySocket, conn, now, arrived, fuel>>
  /\ messages' = Receive(messages, outbox')
  /\ UNCHANGED client
  /\ UNCHANGED quiz

\* res.status(200).json({ ok: true })
HealthReply == [status |-> 200, body |-> [ok |-> TRUE]]

\* mutant of Health: the endpoint reports the store, and fails without one
HealthOfStore ==
  /\ pc = "listening"
  /\ last' = [Step("GET /health", 0) EXCEPT
               !.res = IF firestore THEN HealthReply
                       ELSE [status |-> 503, body |-> [ok |-> FALSE]]]
  /\ outbox' = <<>>
  /\ UNCHANGED <<pc, firestore, store, pending, chatHistory, onlineUsers, lastOnlineByName,
                 typingBySocket, conn, now, arrived, fuel>>
  /\ messages' = Receive(messages, outbox')
  /\ UNCHANGED client
  /\ UNCHANGED quiz

\* app.get("/health", ...): served once httpServer.listen has run
Health ==
  /\ pc = "listening"
  /\ last' = [Step("GET /health", 0) EXCEPT !.res = HealthReply]
  /\ outbox' = <<>>
  /\ UNCHANGED <<pc, firestore, store, pending, chatHistory, onlineUsers, lastOnlineByName,
                 typingBySocket, conn, now, arrived, fuel>>
  /\ messages' = Receive(messages, outbox')
  /\ UNCHANGED client
  /\ UNCHANGED quiz

\* ------------------------------------------------------------ broadcasters
\* emitPresence(), with the maps and the transport as they are when it runs
EmitPresence(cn, users) ==
  IoEmit(LiveOf(cn), "presence:update",
         [onlineCount |-> ClientsCount(cn),
          names |-> Distinct([i \in 1..Len(users) |-> users[i].name])])

\* emitTyping()
EmitTyping(cn, typing) == IoEmit(LiveOf(cn), "presence:typing", [users |-> typing])

\* Object.fromEntries(lastOnlineByName)
EmitLastOnline(cn, ledger) == IoEmit(LiveOf(cn), "presence:last_online", ledger)

\* mutant of LedgerSet: the later of the two timestamps is kept
LedgerSetLatest(ledger, name, t) ==
  [n \in DOMAIN ledger \cup {name} |->
     IF n # name THEN ledger[n]
     ELSE IF name \in DOMAIN ledger /\ ledger[name] > t THEN ledger[name] ELSE t]

\* mutant of LedgerSet: an entry, once written, is kept
LedgerSetOnce(ledger, name, t) ==
  IF name \in DOMAIN ledger THEN ledger
  ELSE [n \in DOMAIN ledger \cup {name} |-> IF n = name THEN t ELSE ledger[n]]

\* lastOnlineByName.set(name, t)
LedgerSet(ledger, name, t) ==
  [n \in DOMAIN ledger \cup {name} |-> IF n = name THEN t ELSE ledger[n]]

\* -------------------------------------------------------------- transport
\* what Date.now() may return next: the clock stands still between two
\* readings or moves on (one unit is any amount of time)
Clock == {now, now + 1}

\* Date.now() is the wall clock, which an adjustment may also set back
SkewedClock == {t \in {now - 1, now, now + 1} : t >= 1}

\* the transport closes after the socket has left: clientsCount--, no handler runs
EngineClose(c) ==
  /\ conn[c] = "left"
  /\ conn' = [conn EXCEPT ![c] = "closed"]
  /\ last' = Step("engine close", c)
  /\ outbox' = <<>>
  /\ UNCHANGED <<pc, firestore, store, pending, chatHistory, onlineUsers, lastOnlineByName,
                 typingBySocket, now, arrived, fuel>>
  /\ messages' = Receive(messages, outbox')
  /\ UNCHANGED client
  /\ UNCHANGED quiz

\* --------------------------------------------------------------- handlers
\* a handler throws: the exception is uncaught and the process ends, its
\* memory and its connections with it; writes on their way may still settle
Crash ==
  /\ pc' = "crashed"
  /\ conn' = [d \in Sockets |-> IF conn[d] = "fresh" THEN "fresh" ELSE "closed"]
  /\ chatHistory' = <<>>
  /\ arrived' = <<>>
  /\ onlineUsers' = <<>>
  /\ typingBySocket' = <<>>
  /\ lastOnlineByName' = <<>>
  /\ outbox' = <<>>
  /\ UNCHANGED <<firestore, store, pending, now>>

\* mutant of Greeting: the snapshot is taken without the newest message
GreetingStale(cn, c) ==
  <<Emit(c, "chat history", SubSeq(chatHistory, 1, Len(chatHistory) - 1)),
    Emit(c, "presence:last_online", lastOnlineByName)>>

\* mutant of Greeting: io.emit, which reaches every socket of the namespace
GreetingToAll(cn, c) ==
  IoEmit(LiveOf(cn), "chat history", chatHistory)
  \o IoEmit(LiveOf(cn), "presence:last_online", lastOnlineByName)

\* lines 73-74: socket.emit of the history and of the ledger
Greeting(cn, c) ==
  <<Emit(c, "chat history", chatHistory),
    Emit(c, "presence:last_online", lastOnlineByName)>>

\* io.on("connection", (socket) => ...): connection ids are never reused
Connection(c) ==
  /\ pc = "listening"
  /\ conn[c] = "fresh"
  /\ \A d \in Sockets : d < c => conn[d] # "fresh"
  /\ fuel > 0
  /\ fuel' = fuel - 1
  /\ conn' = [conn EXCEPT ![c] = "live"]
  /\ outbox' = Greeting(conn', c)
               \o EmitPresence(conn', onlineUsers)
               \o EmitTyping(conn', typingBySocket)
  /\ last' = Step("connection", c)
  /\ UNCHANGED <<pc, firestore, store, pending, chatHistory, onlineUsers, lastOnlineByName,
                 typingBySocket, now, arrived>>
  /\ messages' = Receive(messages, outbox')
  /\ UNCHANGED client
  /\ UNCHANGED quiz

\* mutant of NewMsg: a registered sender's message carries its registered name
NewMsgRegisteredName(c, p, t) ==
  [name |-> IF MapHas(onlineUsers, c) THEN MapGet(onlineUsers, c) ELSE MsgName(p),
   text |-> MsgText(p), at |-> ResolveAt(p, t), senderSocketId |-> c]

\* mutant of NewMsg: a sender named in the payload is believed
NewMsgTrusting(c, p, t) ==
  [name |-> MsgName(p), text |-> MsgText(p), at |-> ResolveAt(p, t),
   senderSocketId |-> IF p.senderSocketId # 0 THEN p.senderSocketId ELSE c]

\* the message built at line 84
NewMsg(c, p, t) == [name |-> MsgName(p), text |-> MsgText(p), at |-> ResolveAt(p, t),
                    senderSocketId |-> c]

\* mutant of Push: evicts as soon as the buffer reaches MAX_HISTORY
PushEvictEarly(h, msg) == IF Len(h) + 1 >= MAX_HISTORY THEN Tail(Append(h, msg)) ELSE Append(h, msg)

\* chatHistory.push(msg); if (chatHistory.length > MAX_HISTORY) chatHistory.shift()
Push(h, msg) == IF Len(h) + 1 > MAX_HISTORY THEN Tail(Append(h, msg)) ELSE Append(h, msg)

\* mutant of Broadcast: the emit sends what the buffer ended with when the
\* event came in, as if the push had been put off to a later turn
BroadcastBeforePush(c, msg) ==
  IoEmit(Live, "chat message", IF chatHistory # <<>> THEN chatHistory[Len(chatHistory)] ELSE msg)

\* mutant of Broadcast: the emit has slipped into the `if (firestore)` block
BroadcastIfStored(c, msg) == IF firestore THEN IoEmit(Live, "chat message", msg) ELSE <<>>

\* mutant of Broadcast: socket.broadcast.emit, which skips the sender
BroadcastToOthers(c, msg) == IoEmit(Live \ {c}, "chat message", msg)

\* io.emit("chat message", msg)
Broadcast(c, msg) == IoEmit(Live, "chat message", msg)

\* if (firestore) firestore.collection("messages").add({...})
AddDoc(q, msg) == IF firestore THEN Append(q, msg) ELSE q

\* socket.on("chat message", (payload) => ...), Date.now() returning t
ChatMessage(c, p, t) ==
  /\ conn[c] = "live"
  /\ fuel > 0
  /\ fuel' = fuel - 1
  /\ last' = Step("chat message", c)
  /\ IF Throws(p) THEN Crash
     ELSE
       /\ now' = IF p.at.num /\ p.at.n # 0 THEN now ELSE t
       /\ IF MsgText(p) = <<>>
          THEN /\ outbox' = <<>>
               /\ UNCHANGED <<chatHistory, arrived, pending>>
          ELSE /\ chatHistory' = Push(chatHistory, NewMsg(c, p, t))
               /\ outbox' = Broadcast(c, NewMsg(c, p, t))
               /\ pending' = AddDoc(pending, NewMsg(c, p, t))
               /\ arrived' = Append(arrived, NewMsg(c, p, t))
       /\ UNCHANGED <<pc, firestore, store, onlineUsers, lastOnlineByName, typingBySocket,
                      conn>>
  /\ messages' = Receive(messages, outbox')
  /\ UNCHANGED client
  /\ UNCHANGED quiz

\* socket.on("chat register", (payload) => ...)
OnChatRegister(c, p) ==
  /\ conn[c] = "live"
  /\ fuel > 0
  /\ fuel' = fuel - 1
  /\ last' = Step("chat register", c)
  /\ IF Throws(p) THEN Crash
     ELSE
       /\ IF CleanName(p) = <<>>
          THEN /\ outbox' = <<>>
               /\ UNCHANGED <<onlineUsers, typingBySocket>>
          ELSE /\ onlineUsers' = MapSet(onlineUsers, c, CleanName(p))
               /\ typingBySocket' = MapDelete(typingBySocket, c)
               /\ outbox' = EmitPresence(conn, onlineUsers')
       /\ UNCHANGED <<pc, firestore, store, pending, chatHistory, lastOnlineByName, conn, now,
                      arrived>>
  /\ messages' = Receive(messages, outbox')
  /\ UNCHANGED quiz

\* the register event of a client whose chat window the model leaves alone
ChatRegister(c, p) == OnChatRegister(c, p) /\ UNCHANGED client

\* what `last` keeps of a typing event
Stops(c, p) ==
  IF p.typing THEN <<>>
  ELSE IF last.ev = "chat typing" /\ last.id = c /\ last.stop # <<>> /\ last.stop[1] = p.name
       THEN <<p.name, p.name>>
       ELSE <<p.name>>

\* mutant of SetTyping: a typing-stop without an entry to remove starts typing
SetTypingToggle(m, c, p) ==
  IF p.typing \/ ~MapHas(m, c) THEN MapSet(m, c, CleanName(p)) ELSE MapDelete(m, c)

\* mutant of SetTyping: the payload's name is stored as it came
SetTypingRawName(m, c, p) == IF p.typing THEN MapSet(m, c, p.name) ELSE MapDelete(m, c)

\* lines 112-114: the Typing Tracker after a typing event with a name
SetTyping(m, c, p) == IF p.typing THEN MapSet(m, c, CleanName(p)) ELSE MapDelete(m, c)

\* socket.on("chat typing", (payload) => ...)
OnChatTyping(c, p) ==
  /\ conn[c] = "live"
  /\ fuel > 0
  /\ fuel' = fuel - 1
  /\ last' = [Step("chat typing", c) EXCEPT !.stop = Stops(c, p)]
  /\ IF Throws(p) THEN Crash
     ELSE
       /\ IF CleanName(p) = <<>>
          THEN /\ outbox' = <<>>
               /\ UNCHANGED typingBySocket
          ELSE /\ typingBySocket' = SetTyping(typingBySocket, c, p)
               /\ outbox' = EmitTyping(conn, typingBySocket')
       /\ UNCHANGED <<pc, firestore, store, pending, chatHistory, onlineUsers,
                      lastOnlineByName, conn, now, arrived>>
  /\ messages' = Receive(messages, outbox')
  /\ UNCHANGED quiz

\* the typing event of a client whose chat window the model leaves alone
ChatTyping(c, p) == OnChatTyping(c, p) /\ UNCHANGED client

\* mutant of SeenTo: io.emit, which reaches the sender too
SeenToAll(c) == Live

\* socket.broadcast: every socket of the namespace but the sender
SeenTo(c) == Live \ {c}

\* the receipt built at line 122
SeenReceipt(c, p, t) ==
  [name |-> OrElse(CleanName(p), Someone), at |-> ResolveAt(p, t), viewerSocketId |-> c]

\* mutant of ChatSeen: the viewer is also entered in the Last-Seen Ledger
ChatSeenRecorded(c, p, t) ==
  /\ conn[c] = "live"
  /\ fuel > 0
  /\ fuel' = fuel - 1
  /\ last' = Step("chat seen", c)
  /\ now' = IF p.at.num /\ p.at.n # 0 THEN now ELSE t
  /\ outbox' = IoEmit(SeenTo(c), "chat seen", SeenReceipt(c, p, t))
  /\ lastOnlineByName' = LedgerSet(lastOnlineByName, SeenReceipt(c, p, t).name, ResolveAt(p, t))
  /\ UNCHANGED <<pc, firestore, store, pending, chatHistory, onlineUsers, typingBySocket,
                 conn, arrived>>
  /\ messages' = Receive(messages, outbox')
  /\ UNCHANGED client
  /\ UNCHANGED quiz

\* socket.on("chat seen", (payload) => ...)
ChatSeen(c, p, t) ==
  /\ conn[c] = "live"
  /\ fuel > 0
  /\ fuel' = fuel - 1
  /\ last' = Step("chat seen", c)
  /\ IF Throws(p) THEN Crash
     ELSE
       /\ now' = IF p.at.num /\ p.at.n # 0 THEN now ELSE t
       /\ outbox' = IoEmit(SeenTo(c), "chat seen", SeenReceipt(c, p, t))
       /\ UNCHANGED <<pc, firestore, store, pending, chatHistory, onlineUsers,
                      lastOnlineByName, typingBySocket, conn, arrived>>
  /\ messages' = Receive(messages, outbox')
  /\ UNCHANGED client
  /\ UNCHANGED quiz

\* how a disconnect reaches the relay: the transport closed (the engine has
\* already discounted it), or the client sent a disconnect packet
Reasons == {"transport close", "client namespace disconnect"}

AfterDisconnect(c, reason) ==
  [conn EXCEPT ![c] = IF reason = "transport close" THEN "closed" ELSE "left"]

\* mutant of RecordLastSeen: a connection that never registered is recorded
\* under the placeholder name
RecordLastSeenAnyone(c, t) ==
  LedgerSet(lastOnlineByName, IF MapHas(onlineUsers, c) THEN MapGet(onlineUsers, c) ELSE Someone, t)

\* lines 126-130: the ledger after the disconnect of c, Date.now() returning t
RecordLastSeen(c, t) ==
  IF MapHas(onlineUsers, c)
  THEN LedgerSet(lastOnlineByName, MapGet(onlineUsers, c), t)
  ELSE lastOnlineByName

\* mutant of Forget: the entry is left behind
ForgetNothing(m, c) == m

\* lines 131-132: onlineUsers.delete / typingBySocket.delete
Forget(m, c) == MapDelete(m, c)

\* socket.on("disconnect", () => ...)
OnDisconnect(c, reason, t) ==
  /\ conn[c] = "live"
  /\ fuel > 0
  /\ fuel' = fuel - 1
  /\ conn' = AfterDisconnect(c, reason)
  /\ last' = Step(reason, c)
  /\ now' = IF MapHas(onlineUsers, c) THEN t ELSE now
  /\ lastOnlineByName' = RecordLastSeen(c, t)
  /\ onlineUsers' = Forget(onlineUsers, c)
  /\ typingBySocket' = Forget(typingBySocket, c)
  /\ outbox' = (IF MapHas(onlineUsers, c) THEN EmitLastOnline(conn', lastOnlineByName')
                ELSE <<>>)
               \o EmitPresence(conn', onlineUsers')
               \o EmitTyping(conn', typingBySocket')
  /\ UNCHANGED <<pc, firestore, store, pending, chatHistory, arrived>>
  /\ messages' = Receive(messages, outbox')
  /\ UNCHANGED quiz

\* the disconnect of a client whose chat window the model leaves alone
Disconnect(c, reason, t) == OnDisconnect(c, reason, t) /\ UNCHANGED client

\* ------------------------------------------------- durable store, settling
Without(s, i) == SubSeq(s, 1, i - 1) \o SubSeq(s, i + 1, Len(s))

\* a pending add() resolves: the document is in the collection
WriteDone(i) ==
  /\ i \in 1..Len(pending)
  /\ store' = Append(store, pending[i])
  /\ pending' = Without(pending, i)
  /\ last' = Step("write done", 0)
  /\ outbox' = <<>>
  /\ UNCHANGED <<pc, firestore, chatHistory, onlineUsers, lastOnlineByName, typingBySocket,
                 conn, now, arrived, fuel>>
  /\ messages' = Receive(messages, outbox')
  /\ UNCHANGED client
  /\ UNCHANGED quiz

\* mutant of WriteFails: the rejected add() is issued again
WriteFailsRetried(i) ==
  /\ i \in 1..Len(pending)
  /\ pending' = Append(Without(pending, i), pending[i])
  /\ last' = Step("write failed", 0)
  /\ outbox' = <<>>
  /\ UNCHANGED <<pc, firestore, store, chatHistory, onlineUsers, lastOnlineByName,
                 typingBySocket, conn, now, arrived, fuel>>
  /\ messages' = Receive(messages, outbox')
  /\ UNCHANGED client
  /\ UNCHANGED quiz

\* a pending add() rejects: .catch(() => {})
WriteFails(i) ==
  /\ i \in 1..Len(pending)
  /\ pending' = Without(pending, i)
  /\ last' = Step("write failed", 0)
  /\ outbox' = <<>>
  /\ UNCHANGED <<pc, firestore, store, chatHistory, onlineUsers, lastOnlineByName,
                 typingBySocket, conn, now, arrived, fuel>>
  /\ messages' = Receive(messages, outbox')
  /\ UNCHANGED client
  /\ UNCHANGED quiz

\* ------------------------------------------------------------- chat window
\* activeName: (name || draftName).trim().slice(0, 24), not empty
ActiveName == ShortName

\* an event the chat window has emitted, on its way to the relay
Wire(ev, p) == [ev |-> ev, p |-> p]

\* the handler runs the relay still owes its clients: one for every event on
\* its way and one for every typing timer that will emit
Owed(cl, cn) ==
  LET F[k \in 0..MaxConns] ==
        IF k = 0 THEN 0
        ELSE F[k - 1]
             + (IF k \in DOMAIN cn /\ cn[k] = "live"
                THEN Len(cl[k].wire) + (IF cl[k].timer /\ cl[k].open THEN 1 ELSE 0)
                ELSE 0)
  IN  F[MaxConns]

\* mutant of OnType: the input handler without its timer
OnTypeNoTimer(c, typing) ==
  /\ conn[c] = "live"
  /\ client[c].open
  /\ client' = [client EXCEPT
                  ![c].wire = @ \o <<Wire("chat register", Payload(ActiveName, <<>>, NoAt, FALSE)),
                                    Wire("chat typing", Payload(ActiveName, <<>>, NoAt, typing))>>,
                  ![c].typed = @ \/ typing]
  /\ fuel >= Owed(client', conn)
  /\ last' = Step("onType", c)
  /\ outbox' = <<>>
  /\ UNCHANGED <<pc, firestore, store, pending, chatHistory, onlineUsers, lastOnlineByName,
                 typingBySocket, conn, now, arrived, fuel, messages>>
  /\ UNCHANGED quiz

\* onType(value), lines 1068-1078, `typing` being value.trim().length > 0:
\* emits a register and a typing event and (re)starts the timer
OnType(c, typing) ==
  /\ conn[c] = "live"
  /\ client[c].open
  /\ client' = [client EXCEPT
                  ![c].wire = @ \o <<Wire("chat register", Payload(ActiveName, <<>>, NoAt, FALSE)),
                                    Wire("chat typing", Payload(ActiveName, <<>>, NoAt, typing))>>,
                  ![c].timer = TRUE,
                  ![c].typed = @ \/ typing]
  /\ fuel >= Owed(client', conn)
  /\ last' = Step("onType", c)
  /\ outbox' = <<>>
  /\ UNCHANGED <<pc, firestore, store, pending, chatHistory, onlineUsers, lastOnlineByName,
                 typingBySocket, conn, now, arrived, fuel, messages>>
  /\ UNCHANGED quiz

\* the timer of line 1075 fires: socketRef.current?.emit("chat typing", typing: false)
TimerFires(c) ==
  /\ client[c].timer
  /\ client' = [client EXCEPT
                  ![c].timer = FALSE,
                  ![c].wire = IF client[c].open /\ conn[c] = "live"
                              THEN Append(@, Wire("chat typing", Payload(ActiveName, <<>>, NoAt, FALSE)))
                              ELSE @]
  /\ last' = Step("timer", c)
  /\ outbox' = <<>>
  /\ UNCHANGED <<pc, firestore, store, pending, chatHistory, onlineUsers, lastOnlineByName,
                 typingBySocket, conn, now, arrived, fuel, messages>>
  /\ UNCHANGED quiz

\* the chat is closed: the cleanup of line 1010, socket.disconnect(), which
\* the relay hears of after the events emitted before it
Close(c) ==
  /\ conn[c] = "live"
  /\ client[c].open
  /\ client' = [client EXCEPT ![c].open = FALSE, ![c].wire = Append(@, Wire("disconnect", NoPayload))]
  /\ fuel >= Owed(client', conn)
  /\ last' = Step("close", c)
  /\ outbox' = <<>>
  /\ UNCHANGED <<pc, firestore, store, pending, chatHistory, onlineUsers, lastOnlineByName,
                 typingBySocket, conn, now, arrived, fuel, messages>>
  /\ UNCHANGED quiz

\* the relay handles the event of connection c that has waited longest
Deliver(c) ==
  /\ conn[c] = "live"
  /\ client[c].wire # <<>>
  /\ client' = [client EXCEPT ![c].wire = Tail(@)]
  /\ LET e == Head(client[c].wire)
     IN  \/ e.ev = "chat register" /\ OnChatRegister(c, e.p)
         \/ e.ev = "chat typing" /\ OnChatTyping(c, e.p)
         \/ e.ev = "disconnect" /\ \E t \in Clock : OnDisconnect(c, "client namespace disconnect", t)

\* the transport of connection c is lost, with the events on their way
Drop(c, t) ==
  /\ client' = [client EXCEPT ![c].wire = <<>>]
  /\ OnDisconnect(c, "transport close", t)
  /\ fuel' >= Owed(client', conn')

\* -------------------------------------------------------------- access gate
\* everything but the access gate
relay == <<pc, firestore, store, pending, chatHistory, onlineUsers, lastOnlineByName,
           typingBySocket, conn, now, arrived, fuel, outbox, messages, client>>

\* s without its element at place i
Drawn(s, i) == SubSeq(s, 1, i - 1) \o SubSeq(s, i + 1, Len(s))

\* the useEffect on [step], lines 459-462: a new step empties the input
ShowStep(q, n) == [q EXCEPT !.step = n, !.val = IF n = q.step THEN @ ELSE <<>>]

\* onChange of the input, which is disabled while loading or correct
TypeAnswer(a) ==
  /\ ~quiz.unlocked
  /\ ~quiz.loading /\ ~quiz.correct
  /\ quiz.val = <<>>
  /\ quiz' = [quiz EXCEPT !.val = a]
  /\ last' = Step("type answer", 0)
  /\ UNCHANGED relay

\* mutant of Submit: the button is not disabled while `correct` shows
SubmitWhileCorrect ==
  /\ ~quiz.unlocked
  /\ Trim(quiz.val) # <<>> /\ ~quiz.loading
  /\ quiz' = [quiz EXCEPT !.loading = TRUE,
                          !.checks = Append(@, [step |-> quiz.step, val |-> Trim(quiz.val)])]
  /\ last' = Step("submit", 0)
  /\ UNCHANGED relay

\* submit, lines 464-471, up to the await; the form submits only while its
\* button is enabled (line 607): not loading, not correct, an answer typed
Submit ==
  /\ ~quiz.unlocked
  /\ ~quiz.loading /\ ~quiz.correct /\ Trim(quiz.val) # <<>>
  /\ Trim(quiz.val) # <<>> /\ ~quiz.loading
  /\ quiz' = [quiz EXCEPT !.loading = TRUE,
                          !.checks = Append(@, [step |-> quiz.step, val |-> Trim(quiz.val)])]
  /\ last' = Step("submit", 0)
  /\ UNCHANGED relay

\* validateAnswer resolves, lines 472-489, for the step and the answer the
\* submit was made with; `other` is the verdict of the validators the model
\* leaves free
Validated(i, other) ==
  /\ i \in 1..Len(quiz.checks)
  /\ LET at == quiz.checks[i].step
         u == quiz.checks[i].val
         c == QuizAnswers[at + 1]
         ok == validateAnswer(c, u, other)
         seen == [u |-> u, c |-> c, accepted |-> fallbackMatch(u, c)]
     IN  /\ quiz' = IF ok
                    THEN [quiz EXCEPT !.checks = Drawn(@, i), !.loading = FALSE,
                                      !.correct = TRUE,
                                      !.timers = Append(@, at),
                                      !.passed = @ \cup {at},
                                      !.lastOk = at,
                                      !.local = seen]
                    ELSE [quiz EXCEPT !.checks = Drawn(@, i), !.loading = FALSE,
                                      !.val = <<>>, !.local = seen]
         /\ last' = Step(IF ok THEN "validated" ELSE "rejected", 0)
  /\ UNCHANGED relay

\* the delayed advance, lines 476-483: the test is on the step the submit
\* was made at, the increment on the step shown now
Advance(i) ==
  /\ i \in 1..Len(quiz.timers)
  /\ quiz' = IF quiz.timers[i] + 1 >= total
             THEN [quiz EXCEPT !.timers = Drawn(@, i), !.correct = FALSE, !.unlocked = TRUE]
             ELSE IF quiz.unlocked
                  THEN [quiz EXCEPT !.timers = Drawn(@, i)]
                  ELSE [ShowStep(quiz, quiz.step + 1) EXCEPT !.timers = Drawn(@, i),
                                                             !.correct = FALSE]
  /\ last' = Step("advance", 0)
  /\ UNCHANGED relay

\* the go-back button, lines 674-684, rendered while step > 0
GoBack ==
  /\ ~quiz.unlocked
  /\ quiz.step > 0
  /\ quiz' = ShowStep(quiz, quiz.step - 1)
  /\ last' = Step("go back", 0)
  /\ UNCHANGED relay

\* ------------------------------------------------------------------- Next
\* the memory-only relay: a credential is missing
Next ==
  \/ \E present \in (SUBSET Creds) \ {Creds} : InitFirebase(present)
  \/ Listen
  \/ \E c \in 1..MaxConns : Connection(c)
  \/ \E c \in Sockets, p \in PlainMessages, t \in Clock : ChatMessage(c, p, t)
  \/ \E c \in Sockets, p \in PlainRegisters : ChatRegister(c, p)
  \/ \E c \in Sockets, p \in PlainTypings : ChatTyping(c, p)
  \/ \E c \in Sockets, p \in PlainSeens, t \in Clock : ChatSeen(c, p, t)
  \/ \E c \in Sockets, r \in Reasons, t \in Clock : Disconnect(c, r, t)
  \/ \E c \in Sockets : EngineClose(c)

Spec == Init /\ [][Next]_vars

\* the relay and a durable store that is empty or holds a few or about
\* MAX_HISTORY documents, started with any of the credentials set
NextStore ==
  \/ \E present \in SUBSET Creds : InitFirebase(present)
  \/ LoadHistory
  \/ LoadFails
  \/ \E i \in 1..MAX_HISTORY : ReadFails(i)
  \/ Listen
  \/ Health
  \/ \E c \in 1..FewConns : Connection(c)
  \/ \E c \in Sockets, p \in PlainMessages, t \in Clock : ChatMessage(c, p, t)
  \/ \E c \in Sockets, p \in PlainRegisters : ChatRegister(c, p)
  \/ \E c \in Sockets, p \in PlainTypings : ChatTyping(c, p)
  \/ \E c \in Sockets, p \in PlainSeens, t \in Clock : ChatSeen(c, p, t)
  \/ \E c \in Sockets, r \in Reasons, t \in Clock : Disconnect(c, r, t)
  \/ \E c \in Sockets : EngineClose(c)
  \/ \E i \in 1..Len(pending) : WriteDone(i)
  \/ \E i \in 1..Len(pending) : WriteFails(i)

SpecStore == InitStore /\ [][NextStore]_vars

\* the memory-only relay, fed every shape of payload
NextPayload ==
  \/ \E present \in (SUBSET Creds) \ {Creds} : InitFirebase(present)
  \/ Listen
  \/ \E c \in 1..FewConns : Connection(c)
  \/ \E c \in Sockets, p \in RichMessages, t \in Clock : ChatMessage(c, p, t)
  \/ \E c \in Sockets, p \in RichRegisters : ChatRegister(c, p)
  \/ \E c \in Sockets, p \in RichTypings : ChatTyping(c, p)
  \/ \E c \in Sockets, p \in RichSeens, t \in Clock : ChatSeen(c, p, t)
  \/ \E c \in Sockets, r \in Reasons, t \in Clock : Disconnect(c, r, t)
  \/ \E c \in Sockets : EngineClose(c)

SpecPayload == InitPayload /\ [][NextPayload]_vars

\* the memory-only relay and its presence events, on a clock that may be set
\* back
NextSkew ==
  \/ \E present \in (SUBSET Creds) \ {Creds} : InitFirebase(present)
  \/ Listen
  \/ \E c \in 1..MaxConns : Connection(c)
  \/ \E c \in Sockets, p \in PlainRegisters : ChatRegister(c, p)
  \/ \E c \in Sockets, r \in Reasons, t \in SkewedClock : Disconnect(c, r, t)
  \/ \E c \in Sockets : EngineClose(c)

SpecSkew == Init /\ [][NextSkew]_vars

\* the payloads of SpecForge, before a connection id is put into them
ForgeMessage == Payload(ShortName, PadText, NoAt, FALSE)

ForgeSeen == Payload(PadName, <<>>, NumAt(2), FALSE)

\* the relay with or without its store, every message and seen event naming
\* another connection than its own as sender and viewer
NextForge ==
  \/ \E present \in SUBSET Creds : InitFirebase(present)
  \/ LoadHistory
  \/ Listen
  \/ \E c \in 1..MaxConns : Connection(c)
  \/ \E c \in Sockets : \E id \in Sockets \ {c}, t \in Clock : ChatMessage(c, Forged(ForgeMessage, id), t)
  \/ \E c \in Sockets : \E id \in Sockets \ {c}, t \in Clock : ChatSeen(c, Forged(ForgeSeen, id), t)
  \/ \E i \in 1..Len(pending) : WriteDone(i)

SpecForge == Init /\ [][NextForge]_vars

\* the memory-only relay with chat windows behind its connections: every
\* event comes from the input handler, its timer, or the closing of the chat
NextTyping ==
  \/ \E present \in (SUBSET Creds) \ {Creds} : InitFirebase(present)
  \/ Listen
  \/ \E c \in 1..FewConns : Connection(c) /\ fuel' >= Owed(client, conn)
  \/ \E c \in Sockets, typing \in BOOLEAN : OnType(c, typing)
  \/ \E c \in Sockets : TimerFires(c)
  \/ \E c \in Sockets : Close(c)
  \/ \E c \in Sockets : Deliver(c)
  \/ \E c \in Sockets, t \in Clock : Drop(c, t)

\* the timer fires and the events on their way are handled
FairTyping == \A c \in Sockets : WF_vars(TimerFires(c)) /\ WF_vars(Deliver(c))

SpecTyping == Init /\ [][NextTyping]_vars /\ FairTyping

\* the access gate alone, the relay not started
NextQuiz ==
  \/ \E a \in TypedAnswers : TypeAnswer(a)
  \/ Submit
  \/ \E i \in 1..total, other \in BOOLEAN : Validated(i, other)
  \/ \E i \in 1..total : Advance(i)
  \/ GoBack

SpecQuiz == Init /\ [][NextQuiz]_vars

TypeOK ==
  /\ pc \in {"init", "load", "ready", "listening", "crashed"}
  /\ now >= 1
  /\ fuel >= 0
  /\ \A c \in Sockets : conn[c] \in {"fresh", "live", "left", "closed"}

\* ================================================================= claims
\* the last n elements of s
LastN(s, n) == SubSeq(s, Len(s) - Min(n, Len(s)) + 1, Len(s))

\* the places of box that hold an event ev sent to connection c
Sent(box, c, ev) == {i \in 1..Len(box) : box[i].to = c /\ box[i].ev = ev}

IsMessageStep(l) == l.ev = "chat message"

IsDisconnectStep(l) == l.ev \in Reasons

\* ---------------------------------------------------------------------- C1
\* C1: the History Buffer is the last min(k, MAX_HISTORY) messages in arrival
\* order, k counting the messages reloaded at startup (none when the buffer
\* starts empty) and then every accepted message: the oldest goes first, and
\* the values of `at` play no part.
C1_HistoryIsLastArrived == chatHistory = LastN(arrived, MAX_HISTORY)

\* a message was accepted on a full buffer, after one with a later `at`
C1_Witness ==
  /\ IsMessageStep(last)
  /\ Len(arrived) > MAX_HISTORY
  /\ Len(chatHistory) = MAX_HISTORY
  /\ chatHistory[MAX_HISTORY].at < chatHistory[MAX_HISTORY - 1].at
  /\ chatHistory[MAX_HISTORY - 1].senderSocketId # 0

\* ---------------------------------------------------------------------- C2
\* C2: the History Buffer never holds more than MAX_HISTORY messages, after
\* the startup reload and after any event.
C2_HistoryBounded == Len(chatHistory) <= MAX_HISTORY

\* the reload met a store that holds more than MAX_HISTORY documents
C2_Witness ==
  /\ last.ev = "load"
  /\ Len(store) > MAX_HISTORY
  /\ Len(chatHistory) = MAX_HISTORY

\* ---------------------------------------------------------------------- C3
\* C3: an accepted message event sends exactly one "chat message" event to
\* every live connection, the sender included, and nothing else; the message
\* sent is the one appended to the History Buffer, with the sender's id.
C3_Delivered(box, h, sender) ==
  /\ \A d \in Live : Cardinality(Sent(box, d, "chat message")) = 1
  /\ Len(box) = Cardinality(Live)
  /\ \A i \in 1..Len(box) : /\ box[i].data = h[Len(h)]
                            /\ box[i].data.senderSocketId = sender

C3_MessageBroadcast ==
  [][ (IsMessageStep(last') /\ arrived' # arrived)
        => /\ conn' = conn
           /\ last'.id \in Live
           /\ chatHistory' # <<>>
           /\ C3_Delivered(outbox', chatHistory', last'.id) ]_vars

\* a message was accepted while two connections were live
C3_Witness ==
  /\ IsMessageStep(last)
  /\ Cardinality(Live) = 2
  /\ Len(outbox) = 2
  /\ \A i \in 1..2 : outbox[i].ev = "chat message" /\ outbox[i].data = chatHistory[Len(chatHistory)]

\* ---------------------------------------------------------------------- C4
\* C4: a message event whose text is missing, empty or only whitespace changes
\* no shared structure, sends no event and issues no write to the store.
C4_BlankDropped ==
  [][ \A c \in Sockets, p \in PlainMessages, t \in Clock :
        (ChatMessage(c, p, t) /\ (\A i \in 1..Len(p.text) : IsSpace(p.text[i])))
          => /\ outbox' = <<>>
             /\ UNCHANGED <<chatHistory, onlineUsers, typingBySocket, lastOnlineByName,
                            pending, store, arrived>> ]_vars

\* a message event was dropped by a relay that has a store and a history
C4_Witness ==
  /\ IsMessageStep(last)
  /\ outbox = <<>>
  /\ firestore
  /\ chatHistory # <<>>

\* ---------------------------------------------------------------------- C5
\* the newest message of history h
Newest(h) == h[Len(h)]

\* every "chat message" event of box carries a text of n characters
SentTextLen(box, n) ==
  \A i \in 1..Len(box) : box[i].ev = "chat message" => Len(box[i].data.text) = n

\* every "chat message" event of box carries a sender name of n characters
SentNameLen(box, n) ==
  \A i \in 1..Len(box) : box[i].ev = "chat message" => Len(box[i].data.name) = n

\* every "presence:update" event of box lists a name of n characters
ListedNameLen(box, n) ==
  \A i \in 1..Len(box) : box[i].ev = "presence:update" =>
    \E k \in 1..Len(box[i].data.names) : Len(box[i].data.names[k]) = n

\* every "presence:typing" event of box shows connection c with a name of n characters
TypingNameLen(box, c, n) ==
  \A i \in 1..Len(box) : box[i].ev = "presence:typing" =>
    \E k \in 1..Len(box[i].data.users) :
      box[i].data.users[k].id = c /\ Len(box[i].data.users[k].name) = n

\* the truncation of C5, with TooLongText and TooLongName saying which payload
\* strings count as too long
C5_Truncation(TooLongText(_), TooLongName(_)) ==
  /\ \A c \in Sockets, p \in RichMessages, t \in Clock :
       (ChatMessage(c, p, t) /\ arrived' # arrived) =>
         /\ TooLongText(p.text) => (Len(Newest(chatHistory').text) = TextMax
                                    /\ SentTextLen(outbox', TextMax))
         /\ TooLongName(p.name) => (Len(Newest(chatHistory').name) = NameMax
                                    /\ SentNameLen(outbox', NameMax))
  /\ \A c \in Sockets, p \in RichRegisters :
       (ChatRegister(c, p) /\ outbox' # <<>> /\ TooLongName(p.name)) =>
         /\ Len(MapGet(onlineUsers', c)) = NameMax
         /\ ListedNameLen(outbox', NameMax)
  /\ \A c \in Sockets, p \in RichTypings :
       (ChatTyping(c, p) /\ p.typing /\ outbox' # <<>> /\ TooLongName(p.name)) =>
         /\ Len(MapGet(typingBySocket', c)) = NameMax
         /\ TypingNameLen(outbox', c, NameMax)

LongerThanText(s) == Len(s) > TextMax
LongerThanName(s) == Len(s) > NameMax
TrimmedLongerThanText(s) == Len(Trim(s)) > TextMax
TrimmedLongerThanName(s) == Len(Trim(s)) > NameMax

\* C5 as claimed: a payload text longer than TextMax characters is stored and
\* broadcast with exactly TextMax characters, a payload name longer than
\* NameMax characters with exactly NameMax.
C5_Original == [][C5_Truncation(LongerThanText, LongerThanName)]_vars

\* C5 as amended: a payload text that is longer than TextMax characters once
\* trimmed is stored and broadcast with exactly TextMax characters, and a
\* payload name that is longer than NameMax characters once trimmed with
\* exactly NameMax (in a message, a register event and a typing=true event).
C5_TrimmedThenTruncated == [][C5_Truncation(TrimmedLongerThanText, TrimmedLongerThanName)]_vars

\* a message with an over-long text and an over-long name was accepted
C5_Witness ==
  /\ IsMessageStep(last)
  /\ outbox # <<>>
  /\ Len(Newest(chatHistory).text) = TextMax
  /\ Len(Newest(chatHistory).name) = NameMax
  /\ SentTextLen(outbox, TextMax)

\* ---------------------------------------------------------------------- C6
NoEdgeSpace(s) == s = <<>> \/ (~IsSpace(s[1]) /\ ~IsSpace(s[Len(s)]))

CleanMessage(m) ==
  /\ m.text # <<>>
  /\ Len(m.text) <= TextMax
  /\ NoEdgeSpace(m.text)
  /\ Len(m.name) <= NameMax
  /\ NoEdgeSpace(m.name)

\* C6: every message in the History Buffer and every message broadcast has a
\* text that is non-empty, of at most TextMax characters and without leading
\* or trailing whitespace, and a sender name of at most NameMax characters
\* without leading or trailing whitespace.
C6_MessagesClean ==
  /\ \A i \in 1..Len(chatHistory) : CleanMessage(chatHistory[i])
  /\ \A i \in 1..Len(outbox) : outbox[i].ev = "chat message" => CleanMessage(outbox[i].data)

\* ---------------------------------------------------------------------- C7
OneEntry(m, k) == Cardinality({i \in 1..Len(m) : m[i].id = k}) = 1

\* the connections other than c that the registry m maps to name n
OtherHolders(m, c, n) == {i \in 1..Len(m) : m[i].id # c /\ m[i].id \in Live /\ m[i].name = n}

\* C7: the Session Registry never holds two entries for one connection; a
\* valid register event from a connection registered under another name
\* leaves it mapped to the new name only, and the presence update sent to
\* every live connection lists the old name only if another live connection
\* holds it.
C7_LatestNameOnly ==
  [][ /\ \A c \in MapKeys(onlineUsers') : OneEntry(onlineUsers', c)
      /\ \A c \in Sockets, p \in PlainRegisters :
           (ChatRegister(c, p) /\ CleanName(p) # <<>> /\ MapHas(onlineUsers, c)
              /\ MapGet(onlineUsers, c) # CleanName(p)) =>
             /\ MapGet(onlineUsers', c) = CleanName(p)
             /\ \A d \in Live : Cardinality(Sent(outbox', d, "presence:update")) = 1
             /\ \A i \in 1..Len(outbox') :
                  /\ outbox'[i].ev = "presence:update"
                  /\ (\E k \in 1..Len(outbox'[i].data.names) :
                        outbox'[i].data.names[k] = MapGet(onlineUsers, c))
                     <=> OtherHolders(onlineUsers', c, MapGet(onlineUsers, c)) # {}
                  /\ \E k \in 1..Len(outbox'[i].data.names) :
                        outbox'[i].data.names[k] = CleanName(p) ]_vars

\* a connection re-registered under a new name while another live connection
\* holds its old name
C7_Witness ==
  /\ last.ev = "chat register"
  /\ last.was # <<>>
  /\ MapHas(onlineUsers, last.id)
  /\ MapGet(onlineUsers, last.id) # last.was
  /\ OtherHolders(onlineUsers, last.id, last.was) # {}
  /\ outbox # <<>>

\* ---------------------------------------------------------------------- C8
\* C8: the Session Registry and the Typing Tracker hold entries only for live
\* connections, so none for a connection that has disconnected, in any state.
C8_OnlyLive ==
  /\ MapKeys(onlineUsers) \subseteq Live
  /\ MapKeys(typingBySocket) \subseteq Live

\* a registered connection disconnected while another stays registered and typing
C8_Witness ==
  /\ IsDisconnectStep(last)
  /\ last.was # <<>>
  /\ onlineUsers # <<>>
  /\ typingBySocket # <<>>

\* ---------------------------------------------------------------------- C9
\* C9: the disconnect of a connection registered under name n leaves the
\* Last-Seen Ledger mapping n, the name held at the disconnect, to the server
\* time read by that handler, which is not earlier than any time read before;
\* no other entry of the ledger changes.
C9_LastSeenRecorded ==
  [][ \A c \in Sockets :
        (IsDisconnectStep(last') /\ last'.id = c /\ conn[c] = "live" /\ MapHas(onlineUsers, c)) =>
          LET n == MapGet(onlineUsers, c) IN
          /\ n \in DOMAIN lastOnlineByName'
          /\ lastOnlineByName'[n] = now'
          /\ now' >= now
          /\ DOMAIN lastOnlineByName' = DOMAIN lastOnlineByName \cup {n}
          /\ \A m \in DOMAIN lastOnlineByName : m # n => lastOnlineByName'[m] = lastOnlineByName[m] ]_vars

\* a registered connection disconnected after the clock moved; the ledger
\* holds its name, and no other
C9_Witness ==
  /\ IsDisconnectStep(last)
  /\ last.was # <<>>
  /\ DOMAIN lastOnlineByName = {last.was}
  /\ lastOnlineByName[last.was] = now
  /\ now > 1

\* --------------------------------------------------------------------- C10
\* C10: when a registered connection disconnects, every remaining live
\* connection receives a last-seen snapshot that maps its name to the time of
\* the disconnect, and a presence update whose onlineCount is one less than
\* the count before the disconnect.
C10_DisconnectAnnounced ==
  [][ \A c \in Sockets :
        (IsDisconnectStep(last') /\ last'.id = c /\ conn[c] = "live" /\ MapHas(onlineUsers, c)) =>
          \A d \in Live \ {c} :
            /\ \E i \in Sent(outbox', d, "presence:last_online") :
                 /\ MapGet(onlineUsers, c) \in DOMAIN outbox'[i].data
                 /\ outbox'[i].data[MapGet(onlineUsers, c)] = now'
            /\ \E i \in Sent(outbox', d, "presence:update") :
                 outbox'[i].data.onlineCount = ClientsCount(conn) - 1 ]_vars

\* --------------------------------------------------------------------- C11
\* some "presence:typing" event of box sent to connection d shows entry e
TypingShown(box, d, e) ==
  \E i \in Sent(box, d, "presence:typing") :
    \E k \in 1..Len(box[i].data.users) : box[i].data.users[k] = e

\* the typing-start of C11, with HasName saying which payload names count as
\* non-empty
C11_TypingStart(HasName(_)) ==
  \A c \in Sockets, p \in PlainTypings :
    (/\ last'.ev = "chat typing" /\ last'.id = c /\ ChatTyping(c, p)
     /\ p.typing /\ HasName(p.name)) =>
      /\ MapHas(typingBySocket', c)
      /\ MapGet(typingBySocket', c) = CleanName(p)
      /\ \A k \in MapKeys(typingBySocket') : OneEntry(typingBySocket', k)
      /\ \A d \in Live : /\ Cardinality(Sent(outbox', d, "presence:typing")) = 1
                         /\ TypingShown(outbox', d, [id |-> c, name |-> CleanName(p)])

NotEmpty(s) == s # <<>>
NotEmptyTrimmed(s) == Trim(s) # <<>>

\* C11 as claimed: after a typing event with typing=true and a non-empty name
\* from connection c, registered or not, the Typing Tracker maps c to the
\* trimmed, truncated name, holds at most one entry per connection, and every
\* live connection receives a typing snapshot with the entry {c, name}.
C11_Original == [][C11_TypingStart(NotEmpty)]_vars

\* C11 as amended: the same, for a name that is non-empty once trimmed.
C11_TypingStarted == [][C11_TypingStart(NotEmptyTrimmed)]_vars

\* an unregistered connection started typing while two connections were live
C11_Witness ==
  /\ last.ev = "chat typing"
  /\ last.stop = <<>>
  /\ last.was = <<>>
  /\ ~MapHas(onlineUsers, last.id)
  /\ MapHas(typingBySocket, last.id)
  /\ Cardinality(Live) = 2
  /\ \A d \in Live : TypingShown(outbox, d, [id |-> last.id, name |-> <<"a">>])

\* --------------------------------------------------------------------- C12
\* C12: after a typing event whose flag is false or missing from connection
\* c, whatever its name (missing, empty and whitespace-only included), the
\* Typing Tracker has no entry for c, and a typing snapshot is sent to every
\* live connection.
C12_TypingStopped ==
  [][ \A c \in Sockets, p \in PlainTypings :
        (last'.ev = "chat typing" /\ last'.id = c /\ ChatTyping(c, p) /\ ~p.typing) =>
          /\ ~MapHas(typingBySocket', c)
          /\ \A d \in Live : Cardinality(Sent(outbox', d, "presence:typing")) = 1 ]_vars

\* --------------------------------------------------------------------- C13
\* C13: the second of two identical typing-stop events (flag false) handled
\* in a row for one connection changes neither the Typing Tracker nor any
\* other shared structure: twice is the same as once.
C13_StopTwiceIsOnce ==
  [][ (last'.ev = "chat typing" /\ Len(last'.stop) = 2)
        => UNCHANGED <<typingBySocket, onlineUsers, lastOnlineByName, chatHistory,
                       pending, store>> ]_vars

\* a typing connection stopped twice in a row while another was typing
C13_Witness ==
  /\ last.ev = "chat typing"
  /\ Len(last.stop) = 2
  /\ Trim(last.stop[1]) # <<>>
  /\ ~MapHas(typingBySocket, last.id)
  /\ typingBySocket # <<>>
  /\ outbox # <<>>

\* --------------------------------------------------------------------- C14
\* C14: a seen event from connection c sends one seen receipt to every live
\* connection other than c and none to c, each carrying c as the viewer's
\* connection id; no connection receives a receipt that carries its own id.
C14_SeenToOthers ==
  [][ /\ \A c \in Sockets, p \in PlainSeens, t \in Clock :
           (last'.ev = "chat seen" /\ last'.id = c /\ ChatSeen(c, p, t)) =>
             /\ \A d \in Live \ {c} : Cardinality(Sent(outbox', d, "chat seen")) = 1
             /\ Sent(outbox', c, "chat seen") = {}
             /\ Len(outbox') = Cardinality(Live \ {c})
             /\ \A i \in 1..Len(outbox') : outbox'[i].data.viewerSocketId = c
      /\ \A i \in 1..Len(outbox') :
           outbox'[i].ev = "chat seen" => outbox'[i].data.viewerSocketId # outbox'[i].to ]_vars

\* a connection sent a seen event while another was live
C14_Witness ==
  /\ last.ev = "chat seen"
  /\ Cardinality(Live) = 2
  /\ Len(outbox) = 1
  /\ outbox[1].ev = "chat seen"
  /\ outbox[1].to # last.id
  /\ outbox[1].data.viewerSocketId = last.id

\* --------------------------------------------------------------------- C15
\* C15: handling a seen event, whatever its payload, leaves the History
\* Buffer, the Session Registry, the Typing Tracker and the Last-Seen Ledger
\* unchanged and issues no write to the durable store.
C15_SeenChangesNothing ==
  [][ \A c \in Sockets, p \in PlainSeens, t \in Clock :
        (last'.ev = "chat seen" /\ last'.id = c /\ ChatSeen(c, p, t)) =>
          UNCHANGED <<chatHistory, onlineUsers, typingBySocket, lastOnlineByName,
                      pending, store>> ]_vars

\* a seen event was handled by a relay that has a store, a history, and a
\* registered connection
C15_Witness ==
  /\ last.ev = "chat seen"
  /\ firestore
  /\ chatHistory # <<>>
  /\ last.was # <<>>
  /\ MapHas(onlineUsers, last.id)

\* --------------------------------------------------------------------- C16
\* the events of box sent to connection c, in order
ToConn(box, c) == SelectSeq(box, LAMBDA e : e.to = c)

\* the names of registry m, each once
NamesOf(m) == {m[i].name : i \in 1..Len(m)}

SeqToSet(s) == {s[i] : i \in 1..Len(s)}

\* C16: an accepted connection starts without an entry in the Session
\* Registry, and the first events it receives are, in this order, a history
\* snapshot equal to the History Buffer, a last-seen snapshot equal to the
\* Last-Seen Ledger, a presence update (the registered names, and the
\* transport's connection count, the newcomer included) and a typing snapshot
\* equal to the Typing Tracker; no event is sent to a connection that is not
\* live, and a history snapshot is sent to a connection only in the step that
\* accepts it, so exactly once in its lifetime.
C16_GreetedOnce ==
  [][ /\ \A c \in Sockets :
           (last'.ev = "connection" /\ last'.id = c /\ Connection(c)) =>
             /\ ~MapHas(onlineUsers', c)
             /\ Len(ToConn(outbox', c)) = 4
             /\ ToConn(outbox', c)[1] = Emit(c, "chat history", chatHistory')
             /\ ToConn(outbox', c)[2] = Emit(c, "presence:last_online", lastOnlineByName')
             /\ ToConn(outbox', c)[3].ev = "presence:update"
             /\ SeqToSet(ToConn(outbox', c)[3].data.names) = NamesOf(onlineUsers')
             /\ ToConn(outbox', c)[3].data.onlineCount = ClientsCount(conn')
             /\ ToConn(outbox', c)[4] = Emit(c, "presence:typing", [users |-> typingBySocket'])
      /\ \A i \in 1..Len(outbox') : conn'[outbox'[i].to] = "live"
      /\ \A d \in Sockets :
           /\ conn[d] # "fresh" => conn'[d] # "fresh"
           /\ Sent(outbox', d, "chat history") # {} =>
                /\ conn[d] = "fresh"
                /\ Cardinality(Sent(outbox', d, "chat history")) = 1 ]_vars

\* a second connection was accepted by a relay that holds a message and a
\* last-seen entry
C16_Witness ==
  /\ last.ev = "connection"
  /\ chatHistory # <<>>
  /\ DOMAIN lastOnlineByName # {}
  /\ ~MapHas(onlineUsers, last.id)
  /\ \E i \in Sent(outbox, last.id, "chat history") : outbox[i].data = chatHistory
  /\ \E d \in Sockets : conn[d] \in {"left", "closed"}

\* --------------------------------------------------------------------- C17
\* C17: a register event whose name is missing, empty or only whitespace
\* changes no structure, leaves the connection as it was (unregistered, or
\* registered under its previous name) and sends no presence update.
C17_BlankRegisterIgnored ==
  [][ \A c \in Sockets, p \in PlainRegisters :
        (/\ last'.ev = "chat register" /\ last'.id = c /\ ChatRegister(c, p)
         /\ \A i \in 1..Len(p.name) : IsSpace(p.name[i])) =>
          /\ outbox' = <<>>
          /\ UNCHANGED <<onlineUsers, typingBySocket, lastOnlineByName, chatHistory,
                         pending, store, conn>> ]_vars

\* a register event was ignored for a connection that is registered and typing
C17_Witness ==
  /\ last.ev = "chat register"
  /\ outbox = <<>>
  /\ last.was # <<>>
  /\ MapHas(onlineUsers, last.id)
  /\ MapGet(onlineUsers, last.id) = last.was
  /\ MapHas(typingBySocket, last.id)

\* --------------------------------------------------------------------- C18
\* the sender name a message event carries: its name, trimmed and truncated,
\* "anon" when it has none
CarriedName(p) == IF p.name = <<>> THEN Anon ELSE Slice(Trim(p.name), NameMax)

AllSpace(s) == \A i \in 1..Len(s) : IsSpace(s[i])

\* C18: whether a message event is accepted depends on its text alone, not
\* on the sender being registered; the sender name of an accepted message,
\* stored and broadcast, is the one the event carries, not the one in the
\* Session Registry; and no message event changes the Session Registry, the
\* Typing Tracker or the Last-Seen Ledger.
C18_MessageNeedsNoRegistration ==
  [][ \A c \in Sockets, p \in PlainMessages, t \in Clock :
        (last'.ev = "chat message" /\ last'.id = c /\ ChatMessage(c, p, t)) =>
          /\ UNCHANGED <<onlineUsers, typingBySocket, lastOnlineByName>>
          /\ (arrived' # arrived) <=> ~AllSpace(p.text)
          /\ (arrived' # arrived) =>
               /\ Newest(chatHistory').name = CarriedName(p)
               /\ Newest(chatHistory').senderSocketId = c
               /\ \A d \in Live : \E i \in Sent(outbox', d, "chat message") :
                    outbox'[i].data.name = CarriedName(p) ]_vars

\* an unregistered connection's message was accepted under the name "b"
\* while the other connection is registered under "a"
C18_Witness ==
  /\ IsMessageStep(last)
  /\ last.was = <<>>
  /\ ~MapHas(onlineUsers, last.id)
  /\ onlineUsers # <<>>
  /\ outbox # <<>>
  /\ Newest(chatHistory).senderSocketId = last.id
  /\ Newest(chatHistory).name = <<"b">>

\* --------------------------------------------------------------------- C19
IsWriteStep(l) == l.ev \in {"write done", "write failed"}

\* C19: an accepted message is appended to the History Buffer and broadcast
\* in the step that issues its write to the durable store, while that write
\* and any earlier one are still outstanding; the settling of a write, done
\* or failed, sends no event and changes no shared structure; a failed write
\* leaves the store as it was and is not issued again.
C19_WriteNeverAwaited ==
  [][ /\ (IsMessageStep(last') /\ arrived' # arrived /\ firestore) =>
           /\ pending' = Append(pending, Newest(chatHistory'))
           /\ outbox' = Broadcast(last'.id, Newest(chatHistory'))
           /\ store' = store
      /\ IsWriteStep(last') =>
           /\ outbox' = <<>>
           /\ UNCHANGED <<chatHistory, onlineUsers, typingBySocket, lastOnlineByName, conn>>
           /\ Len(pending') = Len(pending) - 1
      /\ last'.ev = "write failed" => store' = store
      /\ last'.ev = "write done" => Len(store') = Len(store) + 1 ]_vars

\* of two accepted messages one write failed and the other is outstanding;
\* the History Buffer holds both
C19_Witness ==
  /\ last.ev = "write failed"
  /\ Len(pending) = 1
  /\ Len(arrived) = 2
  /\ chatHistory = arrived
  /\ store = <<>>

\* --------------------------------------------------------------------- C20
\* what the clients and the handlers see of the relay
Visible == <<chatHistory, onlineUsers, typingBySocket, lastOnlineByName, outbox>>

\* what each protocol event makes of Visible, written without the durable
\* store and without `firestore`
MessageEffect(c, p, t) ==
  LET m == [name |-> CarriedName(p), text |-> Slice(Trim(p.text), TextMax),
            at |-> IF p.at.num /\ p.at.n # 0 THEN p.at.n ELSE t, senderSocketId |-> c]
  IN  IF AllSpace(p.text) THEN <<chatHistory, onlineUsers, typingBySocket, lastOnlineByName, <<>>>>
      ELSE <<LastN(Append(chatHistory, m), MAX_HISTORY), onlineUsers, typingBySocket,
             lastOnlineByName, IoEmit(Live, "chat message", m)>>

RegisterEffect(c, p) ==
  IF AllSpace(p.name) THEN <<chatHistory, onlineUsers, typingBySocket, lastOnlineByName, <<>>>>
  ELSE <<chatHistory, MapSet(onlineUsers, c, CarriedName(p)), MapDelete(typingBySocket, c),
         lastOnlineByName, EmitPresence(conn, MapSet(onlineUsers, c, CarriedName(p)))>>

TypingEffect(c, p) ==
  IF AllSpace(p.name) THEN <<chatHistory, onlineUsers, typingBySocket, lastOnlineByName, <<>>>>
  ELSE LET ty == IF p.typing THEN MapSet(typingBySocket, c, CarriedName(p))
                 ELSE MapDelete(typingBySocket, c)
       IN  <<chatHistory, onlineUsers, ty, lastOnlineByName, EmitTyping(conn, ty)>>

SeenEffect(c, p, t) ==
  <<chatHistory, onlineUsers, typingBySocket, lastOnlineByName,
    IoEmit(Live \ {c}, "chat seen",
           [name |-> IF AllSpace(p.name) THEN Someone ELSE CarriedName(p),
            at |-> IF p.at.num /\ p.at.n # 0 THEN p.at.n ELSE t, viewerSocketId |-> c])>>

DisconnectEffect(c, reason, t) ==
  LET ledger == IF MapHas(onlineUsers, c)
                THEN LedgerSet(lastOnlineByName, MapGet(onlineUsers, c), t)
                ELSE lastOnlineByName
      cn == AfterDisconnect(c, reason)
  IN  <<chatHistory, MapDelete(onlineUsers, c), MapDelete(typingBySocket, c), ledger,
        (IF MapHas(onlineUsers, c) THEN EmitLastOnline(cn, ledger) ELSE <<>>)
        \o EmitPresence(cn, MapDelete(onlineUsers, c))
        \o EmitTyping(cn, MapDelete(typingBySocket, c))>>

\* C20: with one or more of the three credentials absent the relay has no
\* store handle and goes on to listen with an empty History Buffer; it never
\* queries the store and never issues a write to it; and every protocol event
\* (message, register, typing, seen, disconnect) does to the shared
\* structures and sends to the clients what it does with the store configured.
C20_MemoryOnly ==
  [][ /\ \A present \in SUBSET Creds :
           (InitFirebase(present) /\ present # Creds) =>
             (~firestore' /\ pc' = "ready" /\ chatHistory' = <<>>)
      /\ (~firestore' /\ pc' = "ready") => chatHistory' = <<>>
      /\ ~firestore' => /\ pc' # "load"
                        /\ pending' = <<>>
                        /\ store' = store
                        /\ last'.ev \notin {"load", "load failed", "read failed", "write done",
                                          "write failed"}
      /\ \A c \in Sockets, p \in PlainMessages, t \in Clock :
           (last'.ev = "chat message" /\ last'.id = c /\ ChatMessage(c, p, t))
             => Visible' = MessageEffect(c, p, t)
      /\ \A c \in Sockets, p \in PlainRegisters :
           (last'.ev = "chat register" /\ last'.id = c /\ ChatRegister(c, p))
             => Visible' = RegisterEffect(c, p)
      /\ \A c \in Sockets, p \in PlainTypings :
           (last'.ev = "chat typing" /\ last'.id = c /\ ChatTyping(c, p))
             => Visible' = TypingEffect(c, p)
      /\ \A c \in Sockets, p \in PlainSeens, t \in Clock :
           (last'.ev = "chat seen" /\ last'.id = c /\ ChatSeen(c, p, t))
             => Visible' = SeenEffect(c, p, t)
      /\ \A c \in Sockets, r \in Reasons, t \in Clock :
           (last'.ev = r /\ last'.id = c /\ Disconnect(c, r, t))
             => Visible' = DisconnectEffect(c, r, t) ]_vars

\* a relay started without its credentials next to a store that holds
\* documents has accepted and broadcast a message
C20_Witness ==
  /\ ~firestore
  /\ store # <<>>
  /\ pc = "listening"
  /\ IsMessageStep(last)
  /\ Len(chatHistory) = 1
  /\ chatHistory = arrived
  /\ pending = <<>>
  /\ outbox # <<>>

\* --------------------------------------------------------------------- C21
LoadFailed(l) == l.ev \in {"load failed", "read failed"}

\* C21: when the startup load fails, be it the query that is rejected or the
\* read of a stored record that fails, startup goes on to listen and the
\* History Buffer is empty.
C21_FailedLoadLeavesEmpty ==
  LoadFailed(last) => (pc = "ready" /\ chatHistory = <<>> /\ ENABLED Listen)

\* --------------------------------------------------------------------- C22
LoadStep(l) == l.ev \in {"load", "load failed", "read failed"}

\* C22: until the startup load has completed or failed no connection is
\* accepted, no event is sent and no message is appended; the relay starts
\* to listen only after the load, when it has a store; the load runs at most
\* once, and it runs while the History Buffer holds no message from a client.
C22_LoadBeforeListen ==
  [][ /\ pc' \in {"init", "load"} =>
           /\ \A c \in Sockets : conn'[c] = "fresh"
           /\ outbox' = <<>>
           /\ chatHistory' = <<>>
      /\ (pc' = "listening" /\ pc # "listening") => pc = "ready"
      /\ (pc' = "ready" /\ pc # "ready") => (firestore' <=> LoadStep(last'))
      /\ LoadStep(last') =>
           /\ pc = "load"
           /\ pc' = "ready"
           /\ chatHistory = <<>>
           /\ \A c \in Sockets : conn[c] = "fresh"
      /\ pc # "load" => pc' # "load" \/ pc = "init"
      /\ (\E c \in Sockets : conn'[c] # conn[c] \/ arrived' # arrived) =>
           (LoadStep(last') \/ pc = "listening") ]_vars

\* the first connection was accepted after the reload and was sent the
\* reloaded history
C22_Witness ==
  /\ last.ev = "connection"
  /\ firestore
  /\ pc = "listening"
  /\ chatHistory # <<>>
  /\ chatHistory = arrived
  /\ \E i \in Sent(outbox, last.id, "chat history") : outbox[i].data = chatHistory

\* --------------------------------------------------------------------- C23
\* the place in the store, which is in write order, of the document with
\* timestamp `at` (the documents of a store have distinct timestamps)
WrittenAt(at) == CHOOSE k \in 1..Len(store) : store[k].at = at

\* C23: the History Buffer reloaded at startup lists the stored messages in
\* the order in which the relay wrote them, whatever their client-supplied
\* timestamps.
C23_ReloadedInWriteOrder ==
  last.ev = "load" =>
    \A i, j \in 1..Len(chatHistory) :
      i < j => WrittenAt(chatHistory[i].at) < WrittenAt(chatHistory[j].at)

\* --------------------------------------------------------------------- C24
\* C24: the timestamp of an accepted message is the one its event carries
\* whenever that is a number, 0 included, and the server's time, read by the
\* handler, exactly when the event carries none or one that is not a number.
C24_TimestampResolved ==
  [][ \A c \in Sockets, p \in RichMessages, t \in Clock :
        (last'.ev = "chat message" /\ last'.id = c /\ ChatMessage(c, p, t)
           /\ arrived' # arrived) =>
          /\ p.at.num => Newest(chatHistory').at = p.at.n
          /\ ~p.at.num => (Newest(chatHistory').at = t /\ now' = t)
          /\ \A i \in 1..Len(outbox') : outbox'[i].data.at = Newest(chatHistory').at ]_vars

\* --------------------------------------------------------------------- C25
\* every value of map m is a non-empty string of at most NameMax characters
ValidNames(m) == \A i \in 1..Len(m) : m[i].name # <<>> /\ Len(m[i].name) <= NameMax

\* C25: whatever payloads the handlers were given (absent, with missing or
\* wrong-typed fields, blank, over-long), no handler has raised an error,
\* every name in the Session Registry and in the Typing Tracker is a non-empty
\* string of at most NameMax characters, and the relay still handles every
\* event with every payload from every live connection.
C25_HandlersTotal ==
  /\ pc # "crashed"
  /\ ValidNames(onlineUsers)
  /\ ValidNames(typingBySocket)
  /\ fuel > 0 =>
       \A c \in Live :
         /\ \A p \in RichMessages, t \in Clock : ENABLED ChatMessage(c, p, t)
         /\ \A p \in RichRegisters : ENABLED ChatRegister(c, p)
         /\ \A p \in RichTypings : ENABLED ChatTyping(c, p)
         /\ \A p \in RichSeens, t \in Clock : ENABLED ChatSeen(c, p, t)

\* --------------------------------------------------------------------- C26
NoRepeat(s) == \A i, j \in 1..Len(s) : s[i] = s[j] => i = j

\* C26: every presence update lists each registered name once, also when
\* several live connections hold the same name, and its count is the number
\* of live connections, registered or not, so it is never smaller than the
\* number of names listed.
C26_PresenceCounts ==
  \A i \in 1..Len(outbox) :
    outbox[i].ev = "presence:update" =>
      /\ NoRepeat(outbox[i].data.names)
      /\ SeqToSet(outbox[i].data.names) = NamesOf(onlineUsers)
      /\ outbox[i].data.onlineCount = Cardinality(Live)
      /\ outbox[i].data.onlineCount >= Len(outbox[i].data.names)

\* --------------------------------------------------------------------- C27
\* C27: the disconnect of a connection registered under name n leaves the
\* Last-Seen Ledger mapping n to the time that handler read, also when the
\* entry it overwrites is later and also when another live connection is
\* registered under n; between two such disconnects the entry of n keeps its
\* value: the last write wins.
C27_LastWriteWins ==
  [][ /\ \A c \in Sockets, r \in Reasons, t \in SkewedClock :
           (last'.ev = r /\ last'.id = c /\ Disconnect(c, r, t) /\ MapHas(onlineUsers, c)) =>
             lastOnlineByName'[MapGet(onlineUsers, c)] = t
      /\ \A n \in DOMAIN lastOnlineByName :
           (~IsDisconnectStep(last') \/ last'.was # n) =>
             (n \in DOMAIN lastOnlineByName' /\ lastOnlineByName'[n] = lastOnlineByName[n]) ]_vars

\* two connections registered under one name; the first left while the other
\* was live, and the disconnect of the second overwrote the timestamp of the
\* first with an earlier one
C27_Witness ==
  /\ IsDisconnectStep(last)
  /\ last.was # <<>>
  /\ last.seen > lastOnlineByName[last.was]
  /\ lastOnlineByName[last.was] = now

\* --------------------------------------------------------------------- C28
\* C28: a step changes the Last-Seen Ledger only if it is the disconnect of a
\* registered connection, and then only at the key of that connection's name;
\* no step removes a key; the disconnect of a connection that never
\* registered leaves the ledger as it was and sends no last-seen snapshot.
C28_LedgerFrame ==
  [][ /\ DOMAIN lastOnlineByName \subseteq DOMAIN lastOnlineByName'
      /\ lastOnlineByName' # lastOnlineByName =>
           /\ IsDisconnectStep(last')
           /\ last'.was # <<>>
           /\ DOMAIN lastOnlineByName' = DOMAIN lastOnlineByName \cup {last'.was}
           /\ \A n \in DOMAIN lastOnlineByName \ {last'.was} :
                lastOnlineByName'[n] = lastOnlineByName[n]
      /\ \A c \in Sockets, r \in Reasons, t \in Clock :
           (last'.ev = r /\ last'.id = c /\ Disconnect(c, r, t) /\ ~MapHas(onlineUsers, c)) =>
             /\ lastOnlineByName' = lastOnlineByName
             /\ \A i \in 1..Len(outbox') : outbox'[i].ev # "presence:last_online" ]_vars

\* a connection that never registered left while a registered one was live to
\* hear of it: snapshots were sent, none of them of the ledger
C28_Witness ==
  /\ IsDisconnectStep(last)
  /\ last.was = <<>>
  /\ \E c \in Live : MapHas(onlineUsers, c) /\ Sent(outbox, c, "presence:update") # {}

\* --------------------------------------------------------------------- C29
\* C29: in every state of the listening relay a request to /health is
\* answered, the answer is status 200 with body ok = true whatever the
\* state, and the request changes none of the shared structures, the store
\* and the writes on their way included.
C29_HealthFixed ==
  /\ [](pc = "listening" => ENABLED Health)
  /\ [][ last'.ev = "GET /health" =>
           /\ last'.res = [status |-> 200, body |-> [ok |-> TRUE]]
           /\ UNCHANGED <<pc, firestore, store, pending, chatHistory, onlineUsers,
                          lastOnlineByName, typingBySocket, conn, arrived>> ]_vars

\* the endpoint answered while a message was in the buffer, its write on the
\* way, and a name registered
C29_Witness ==
  /\ last.ev = "GET /health"
  /\ last.res.status = 200
  /\ chatHistory # <<>>
  /\ pending # <<>>
  /\ onlineUsers # <<>>

\* --------------------------------------------------------------------- C30
\* C30: a step that changes the Typing Tracker, the removal of a
\* connection's entry by a valid register event included, sends in the same
\* step to every live connection a typing snapshot equal to the tracker as
\* the step leaves it, so no live connection is left with an older snapshot.
C30_TypingChangeIsBroadcast ==
  [][ typingBySocket' # typingBySocket =>
        \A d \in LiveOf(conn') :
          \E i \in Sent(outbox', d, "presence:typing") :
            outbox'[i].data = [users |-> typingBySocket'] ]_vars

\* --------------------------------------------------------------------- C31
\* C31: after every step the presence update that each live connection
\* received last lists the names of the Session Registry and counts the live
\* connections: a step either sends such an update to the connection, or
\* leaves the names and the live connections as the connection last heard
\* them.
C31_PresenceCurrent ==
  [][ \A d \in LiveOf(conn') :
        \/ /\ Sent(outbox', d, "presence:update") # {}
           /\ LET i == CHOOSE k \in Sent(outbox', d, "presence:update") :
                         \A j \in Sent(outbox', d, "presence:update") : j <= k
              IN  /\ SeqToSet(outbox'[i].data.names) = NamesOf(onlineUsers')
                  /\ outbox'[i].data.onlineCount = Cardinality(LiveOf(conn'))
        \/ /\ Sent(outbox', d, "presence:update") = {}
           /\ d \in LiveOf(conn)
           /\ NamesOf(onlineUsers') = NamesOf(onlineUsers)
           /\ Cardinality(LiveOf(conn')) = Cardinality(LiveOf(conn)) ]_vars

\* --------------------------------------------------------------------- C32
\* C32: with M documents in the store at startup, the History Buffer reloaded
\* from it holds the min(M, MAX_HISTORY) documents written last (told apart
\* by their timestamps, which are distinct in the store).
C32_ReloadsNewest ==
  last.ev = "load" =>
    {chatHistory[i].at : i \in 1..Len(chatHistory)} =
      {LastN(store, MAX_HISTORY)[k].at : k \in 1..Min(MAX_HISTORY, Len(store))}

\* --------------------------------------------------------------------- C33
\* the "chat message" events of box addressed to connection d, in the order
\* sent
MessagesTo(box, d) ==
  LET F[k \in 0..Len(box)] ==
        IF k = 0 THEN <<>>
        ELSE IF box[k].to = d /\ box[k].ev = "chat message"
             THEN Append(F[k - 1], box[k].data) ELSE F[k - 1]
  IN  F[Len(box)]

\* C33: a handler runs to its end before the next event is taken: the
\* messages a step appends are the messages it sends, to every live connection
\* and in the order appended, and a step that appends none sends none; so
\* each connection receives the messages in the order of the appends, and
\* any two connections in the same order.
C33_AppendOrderIsDeliveryOrder ==
  [][ /\ Len(arrived') >= Len(arrived)
      /\ SubSeq(arrived', 1, Len(arrived)) = arrived
      /\ \A d \in LiveOf(conn') :
           MessagesTo(outbox', d) = SubSeq(arrived', Len(arrived) + 1, Len(arrived'))
      /\ \A i \in 1..Len(outbox') :
           outbox'[i].ev = "chat message" => outbox'[i].to \in LiveOf(conn') ]_vars

\* a second, different message was appended and sent while two connections
\* were live
C33_Witness ==
  /\ IsMessageStep(last)
  /\ Cardinality(Live) = 2
  /\ Len(arrived) >= 2
  /\ arrived[Len(arrived)] # arrived[Len(arrived) - 1]
  /\ \A d \in Live : MessagesTo(outbox, d) = <<arrived[Len(arrived)]>>

\* --------------------------------------------------------------------- C34
\* C34: the message list of the chat window behind a live connection, the
\* history snapshot it was greeted with followed by the messages it has
\* received since, misses and repeats nothing: the History Buffer is always
\* the last min(MAX_HISTORY, length) entries of that list.
C34_ClientListTracksBuffer ==
  \A d \in Live : chatHistory = LastN(messages[d], MAX_HISTORY)

\* a connection was greeted with a reloaded buffer and has since received
\* the message that pushed the oldest entry out
C34_Witness ==
  /\ IsMessageStep(last)
  /\ \E d \in Live : /\ Len(messages[d]) > MAX_HISTORY
                     /\ messages[d][Len(messages[d])] = chatHistory[Len(chatHistory)]
                     /\ messages[d][1] # chatHistory[1]

\* --------------------------------------------------------------------- C35
\* C35: the sender id of a message, in the buffer, in the broadcast and in
\* the write to the store, and the viewer id of a seen receipt, is the id of
\* the connection whose handler ran, whatever connection id the payload
\* names: the step is the one any payload differing only in that id yields.
C35_SenderIsTheConnection ==
  [][ /\ \A c \in Sockets : \A id \in Sockets \ {c}, t \in Clock :
           (last'.ev = "chat message" /\ last'.id = c
              /\ ChatMessage(c, Forged(ForgeMessage, id), t)) =>
             /\ chatHistory'[Len(chatHistory')].senderSocketId = c
             /\ \A i \in 1..Len(outbox') : outbox'[i].data.senderSocketId = c
             /\ firestore => pending'[Len(pending')].senderSocketId = c
             /\ \A other \in {0} \cup Sockets :
                  Visible' = MessageEffect(c, Forged(ForgeMessage, other), t)
      /\ \A c \in Sockets : \A id \in Sockets \ {c}, t \in Clock :
           (last'.ev = "chat seen" /\ last'.id = c
              /\ ChatSeen(c, Forged(ForgeSeen, id), t)) =>
             /\ \A i \in 1..Len(outbox') : outbox'[i].data.viewerSocketId = c
             /\ \A other \in {0} \cup Sockets :
                  Visible' = SeenEffect(c, Forged(ForgeSeen, other), t)
      /\ last'.ev = "write done" =>
           \E i \in 1..Len(pending) : store' = Append(store, pending[i]) ]_vars

\* a message that named the other live connection as its sender was
\* broadcast to both and written to the store under its true sender
C35_Witness ==
  /\ last.ev = "write done"
  /\ Cardinality(Live) = 2
  /\ store # <<>>
  /\ chatHistory # <<>>
  /\ store[Len(store)] = chatHistory[Len(chatHistory)]
  /\ store[Len(store)].senderSocketId \in Live

\* --------------------------------------------------------------------- C36
\* C36: the input handler's typing events do not outlast the input: once the
\* client produces no more input, its timer firing and its events being
\* handled, the Typing Tracker comes to hold no entry for its connection and
\* stays so.
C36_TypingEnds == <>[](\A c \in Sockets : ~MapHas(typingBySocket, c))

\* the timer's typing-stop of a client that had signalled typing was handled:
\* the tracker has no entry for it, and nothing more is to come from it
C36_Witness ==
  /\ last.ev = "chat typing"
  /\ last.stop # <<>>
  /\ client[last.id].typed
  /\ client[last.id].open
  /\ ~client[last.id].timer
  /\ client[last.id].wire = <<>>
  /\ conn[last.id] = "live"
  /\ ~MapHas(typingBySocket, last.id)

HalfTheWords(u, c) ==
  /\ LongWords(c) # <<>>
  /\ 2 * Cardinality({i \in 1..Len(LongWords(c)) : Includes(u, LongWords(c)[i])})
       >= Len(LongWords(c))

\* C38: the local check accepts an answer only if, case set aside, it equals
\* the correct answer, contains it, or contains at least half of its words
\* longer than two characters; a mere fragment of the correct answer, such
\* as a single letter of it, is not accepted.
C38_LocalCheckStrict ==
  quiz.local.accepted =>
    LET u == toLowerCase(quiz.local.u)
        c == toLowerCase(quiz.local.c)
    IN  u = c \/ Includes(u, c) \/ HalfTheWords(u, c)

====
